---- MODULE Spec2Model ----
(***************************************************************************)
(* CloudGuard alert dashboard (models/Alert.js): the React Dashboard       *)
(* component with its alert collection, filters, derived views, the        *)
(* asynchronous GET /alerts and PUT /alerts/{id}/status exchanges, and the *)
(* alert store behind the REST interface.                                  *)
(*                                                                         *)
(* JavaScript strings are sequences of one-character strings, so that      *)
(* toLowerCase, replace and includes are computed, not assumed.            *)
(***************************************************************************)
EXTENDS Naturals, Sequences, FiniteSets, Bags

VARIABLES
    store,          \* server side: the canonical alert list
    alerts,         \* useState([])   Dashboard's local alert collection
    loading,        \* useState(true)
    error,          \* useState(null)
    lastFetchTime,  \* useState(null)
    filters,        \* useState({severity, status, category, search})
    gets,           \* bag of the GET /alerts exchanges in flight
    puts            \* bag of the PUT /alerts/{id}/status exchanges in flight

vars == <<store, alerts, loading, error, lastFetchTime, filters, gets, puts>>

----------------------------------------------------------------------------
(* Bounds *)

MaxAlerts == 2      \* alerts the detection source creates
MaxInFlight == 2    \* HTTP exchanges (GET and PUT together) in flight at once
MaxLen == 2         \* length of the collections drawn for the filter spec

----------------------------------------------------------------------------
(* JavaScript values *)

Null == <<"<null>">>
Undefined == <<"<undefined>">>

sNew == <<"N", "e", "w">>
sAcknowledged == <<"A", "c", "k", "n", "o", "w", "l", "e", "d", "g", "e", "d">>
sInProgress == <<"I", "n", "-", "P", "r", "o", "g", "r", "e", "s", "s">>
sResolved == <<"R", "e", "s", "o", "l", "v", "e", "d">>
sClosed == <<"C", "l", "o", "s", "e", "d">>

sAll == <<"a", "l", "l">>
sEmpty == <<>>

UpperChars == <<"A", "B", "C", "D", "E", "F", "G", "H", "I", "J", "K", "L", "M",
                "N", "O", "P", "Q", "R", "S", "T", "U", "V", "W", "X", "Y", "Z">>
LowerChars == <<"a", "b", "c", "d", "e", "f", "g", "h", "i", "j", "k", "l", "m",
                "n", "o", "p", "q", "r", "s", "t", "u", "v", "w", "x", "y", "z">>

\* the lower-case letter of each upper-case letter
LowerTable ==
    [c \in {UpperChars[k] : k \in 1..26} |->
        LowerChars[CHOOSE k \in 1..26 : UpperChars[k] = c]]

\* String.prototype.toLowerCase, one character: only letters change
LowerChar(c) == IF c \in DOMAIN LowerTable THEN LowerTable[c] ELSE c

\* String.prototype.toLowerCase
toLowerCase(s) == [i \in 1..Len(s) |-> LowerChar(s[i])]

\* s.replace(/-/g, '')
IsNotHyphen(c) == c # "-"
replaceHyphens(s) == SelectSeq(s, IsNotHyphen)

\* String.prototype.includes
includes(s, sub) ==
    \E i \in 0..Len(s) : i + Len(sub) <= Len(s) /\ SubSeq(s, i + 1, i + Len(sub)) = sub

\* exchanges complete in any order: the ones in flight form a bag
Put(bag, x) == bag (+) SetToBag({x})
Take(bag, x) == bag (-) SetToBag({x})

----------------------------------------------------------------------------
(* Alerts *)

\* class Alert: the constructor stores the fields as given, the status
\* unvalidated; the record of GET /alerts also carries the timestamp that
\* AlertCard displays
Alert(id, severity, category, status, description, timestamp) ==
    [id |-> id, severity |-> severity, category |-> category,
     status |-> status, description |-> description, timestamp |-> timestamp]

\* what the detection source creates, in creation order; the second has a
\* status outside the lifecycle, which the constructor accepts
AlertPool == <<
    [id |-> <<"A", "1">>, severity |-> <<"H", "i", "g", "h">>,
     category |-> <<"C", "V", "E">>, status |-> sNew,
     description |-> <<"B", "u", "g">>, timestamp |-> 1],
    [id |-> <<"B", "2">>, severity |-> <<"L", "o", "w">>,
     category |-> <<"S", "3">>, status |-> sClosed,
     description |-> <<"a", "1", "b">>, timestamp |-> 2],
    [id |-> <<"C", "3">>, severity |-> <<"M", "e", "d", "i", "u", "m">>,
     category |-> <<"I", "A", "M">>, status |-> sResolved,
     description |-> <<"N", "u", "g">>, timestamp |-> 3],
    [id |-> <<"D", "4">>, severity |-> <<"H", "i", "g", "h">>,
     category |-> <<"N", "e", "t", "w", "o", "r", "k">>, status |-> sInProgress,
     description |-> <<"u", "-", "G">>, timestamp |-> 4]
>>

Lifecycle == {sNew, sAcknowledged, sInProgress, sResolved}

----------------------------------------------------------------------------
(* Computed values of Dashboard *)

\* filteredAlerts: the severity test
matchesSeverity(alert, f) ==
    f.severity = sAll \/ toLowerCase(alert.severity) = toLowerCase(f.severity)

normalizedStatus(alert) == replaceHyphens(toLowerCase(alert.status))

\* matchesStatus, comparing without removing the hyphens
matchesStatusKeepHyphens(alert, f) ==
    f.status = sAll \/ toLowerCase(alert.status) = toLowerCase(f.status)

\* filteredAlerts: the status test
matchesStatus(alert, f) ==
    f.status = sAll \/ normalizedStatus(alert) = replaceHyphens(toLowerCase(f.status))

\* filteredAlerts: the category test
matchesCategory(alert, f) ==
    f.category = sAll \/ toLowerCase(alert.category) = toLowerCase(f.category)

searchLower(f) == toLowerCase(f.search)

\* filteredAlerts: the search test; !filters.search holds of the empty string
matchesSearch(alert, f) ==
    \/ f.search = sEmpty
    \/ includes(toLowerCase(alert.description), searchLower(f))
    \/ includes(toLowerCase(alert.id), searchLower(f))

\* the callback of alerts.filter
filterCallback(alert, f) ==
    matchesSeverity(alert, f) /\ matchesStatus(alert, f)
        /\ matchesCategory(alert, f) /\ matchesSearch(alert, f)

\* filterAlerts, delivering the kept alerts in reverse
filterAlertsReversed(list, f) ==
    LET kept == SelectSeq(list, LAMBDA a : filterCallback(a, f))
    IN [k \in 1..Len(kept) |-> kept[Len(kept) + 1 - k]]

\* Array.prototype.filter keeps the elements the callback accepts, in order
filterAlerts(list, f) == SelectSeq(list, LAMBDA a : filterCallback(a, f))

filteredAlerts == filterAlerts(alerts, filters)

countStatus(list, s) == Len(SelectSeq(list, LAMBDA a : a.status = s))
countCategory(list, c) == Len(SelectSeq(list, LAMBDA a : a.category = c))

\* computeStatistics, counting 'InProgress' where the status is 'In-Progress'
computeStatisticsNoHyphen(list) ==
    [new |-> countStatus(list, sNew),
     acknowledged |-> countStatus(list, sAcknowledged),
     inProgress |-> countStatus(list, replaceHyphens(sInProgress)),
     resolved |-> countStatus(list, sResolved),
     total |-> Len(list)]

computeStatistics(list) ==
    [new |-> countStatus(list, sNew),
     acknowledged |-> countStatus(list, sAcknowledged),
     inProgress |-> countStatus(list, sInProgress),
     resolved |-> countStatus(list, sResolved),
     total |-> Len(list)]

statistics == computeStatistics(alerts)

computeCategoryCounts(list) ==
    [CVE |-> countCategory(list, <<"C", "V", "E">>),
     S3 |-> countCategory(list, <<"S", "3">>),
     IAM |-> countCategory(list, <<"I", "A", "M">>),
     Network |-> countCategory(list, <<"N", "e", "t", "w", "o", "r", "k">>),
     Activity |-> countCategory(list, <<"A", "c", "t", "i", "v", "i", "t", "y">>)]

categoryCounts == computeCategoryCounts(alerts)

----------------------------------------------------------------------------
(* AlertCard *)

\* getNextStatus with a table that skips a stage
getNextStatusSkips(currentStatus) ==
    CASE currentStatus = sNew -> sAcknowledged
      [] currentStatus = sAcknowledged -> sResolved
      [] currentStatus = sInProgress -> sResolved
      [] currentStatus = sResolved -> Null
      [] OTHER -> Undefined

\* getNextStatus with a table that lets a Resolved alert start over
getNextStatusReopens(currentStatus) ==
    CASE currentStatus = sNew -> sAcknowledged
      [] currentStatus = sAcknowledged -> sInProgress
      [] currentStatus = sInProgress -> sResolved
      [] currentStatus = sResolved -> sNew
      [] OTHER -> Undefined

\* transitions[currentStatus]: a key the object lacks reads as undefined
getNextStatus(currentStatus) ==
    CASE currentStatus = sNew -> sAcknowledged
      [] currentStatus = sAcknowledged -> sInProgress
      [] currentStatus = sInProgress -> sResolved
      [] currentStatus = sResolved -> Null
      [] OTHER -> Undefined

nextStatus(alert) == getNextStatus(alert.status)

\* nextStatus !== null
canTransition(alert) == nextStatus(alert) # Null

----------------------------------------------------------------------------
(* Exchanges in flight *)

GetRequest == [phase |-> "req", kind |-> "none", data |-> <<>>]
GetResponse(kind, data) == [phase |-> "resp", kind |-> kind, data |-> data]

\* code 0: no HTTP response (pending, or the fetch promise rejected)
\* (shown and twin are history: the status on the card that was clicked, and
\* whether another exchange for the same id from the same shown status was in
\* flight together with this one)
PutRequest(alertId, newStatus, shown, twin) ==
    [id |-> alertId, newStatus |-> newStatus, shown |-> shown, twin |-> twin,
     phase |-> "req", code |-> 0]

\* the in-flight PUT exchanges for alertId sent from a card showing shown
Partners(alertId, shown) ==
    {p \in BagToSet(puts) : p.id = alertId /\ p.shown = shown}

\* the bag of PUT exchanges with the partners' history field twin set
MarkTwins(alertId, shown) ==
    LET mark(p) == IF p \in Partners(alertId, shown)
                   THEN [p EXCEPT !.twin = TRUE] ELSE p
    IN BagOfAll(mark, puts)

responseOk(code) == code >= 200 /\ code <= 299

InFlight == BagCardinality(gets) + BagCardinality(puts)

----------------------------------------------------------------------------
(* Initial state: Dashboard mounted, the effect has called fetchAlerts() *)

DefaultFilters ==
    [severity |-> sAll, status |-> sAll, category |-> sAll, search |-> sEmpty]

Init ==
    /\ store = <<>>
    /\ alerts = <<>>
    /\ loading = TRUE
    /\ error = Null
    /\ lastFetchTime = Null
    /\ filters = DefaultFilters
    /\ gets = SetToBag({GetRequest})
    /\ puts = EmptyBag

----------------------------------------------------------------------------
(* Dashboard: fetching *)

\* fetchAlerts up to its first await: the GET request leaves
fetchAlerts == gets' = Put(gets, GetRequest)

\* the setInterval callback
Poll ==
    /\ InFlight < MaxInFlight
    /\ fetchAlerts
    /\ UNCHANGED <<store, alerts, loading, error, lastFetchTime, filters, puts>>

\* the Refresh button is disabled while loading
handleManualRefresh ==
    /\ ~loading
    /\ InFlight < MaxInFlight
    /\ loading' = TRUE
    /\ fetchAlerts
    /\ UNCHANGED <<store, alerts, error, lastFetchTime, filters, puts>>

\* fetchAlertsResume without setAlerts
fetchAlertsResumeKeeps(r) ==
    /\ IF r.kind \in {"ok", "notArray"}
       THEN /\ alerts' = alerts
            /\ error' = Null
            /\ lastFetchTime' = <<"D", "a", "t", "e">>
       ELSE /\ error' = <<"m", "e", "s", "s", "a", "g", "e">>
            /\ UNCHANGED <<alerts, lastFetchTime>>
    /\ loading' = FALSE

\* fetchAlertsResume, clearing the alerts when the fetch fails
fetchAlertsResumeClears(r) ==
    /\ IF r.kind \in {"ok", "notArray"}
       THEN /\ alerts' = (IF r.kind = "ok" THEN r.data ELSE <<>>)
            /\ error' = Null
            /\ lastFetchTime' = <<"D", "a", "t", "e">>
       ELSE /\ error' = <<"m", "e", "s", "s", "a", "g", "e">>
            /\ alerts' = <<>>
            /\ UNCHANGED lastFetchTime
    /\ loading' = FALSE

\* fetchAlerts after the await: try / catch / finally
fetchAlertsResume(r) ==
    /\ IF r.kind \in {"ok", "notArray"}
       THEN /\ alerts' = (IF r.kind = "ok" THEN r.data ELSE <<>>)
            /\ error' = Null
            /\ lastFetchTime' = <<"D", "a", "t", "e">>
       ELSE /\ error' = <<"m", "e", "s", "s", "a", "g", "e">>
            /\ UNCHANGED <<alerts, lastFetchTime>>
    /\ loading' = FALSE

FetchDone(r) ==
    /\ BagIn(r, gets)
    /\ r.phase = "resp"
    /\ fetchAlertsResume(r)
    /\ gets' = Take(gets, r)
    /\ UNCHANGED <<store, filters, puts>>

----------------------------------------------------------------------------
(* Dashboard: filters *)

FilterTypes == {"severity", "status", "category", "search"}

\* handleFilterChange without ...prev
handleFilterChangeNoSpread(filterType, value) ==
    filters' = [t \in FilterTypes |-> IF t = filterType THEN value ELSE Undefined]

handleFilterChange(filterType, value) ==
    filters' = [filters EXCEPT ![filterType] = value]

\* the options of the three selects
SeverityOptions ==
    {sAll, <<"h", "i", "g", "h">>, <<"m", "e", "d", "i", "u", "m">>, <<"l", "o", "w">>}
StatusOptions ==
    {sAll, <<"n", "e", "w">>, toLowerCase(sAcknowledged),
     <<"i", "n", "p", "r", "o", "g", "r", "e", "s", "s">>, toLowerCase(sResolved)}
CategoryOptions ==
    {sAll, <<"i", "a", "m">>, <<"s", "3">>, <<"n", "e", "t", "w", "o", "r", "k">>,
     <<"a", "c", "t", "i", "v", "i", "t", "y">>, <<"c", "v", "e">>}
\* texts typed into the search box
SearchInputs ==
    {sEmpty, <<"a", "1">>, <<"U", "G">>, <<"z", "z">>, <<"-">>}

FilterOptions(filterType) ==
    CASE filterType = "severity" -> SeverityOptions
      [] filterType = "status" -> StatusOptions
      [] filterType = "category" -> CategoryOptions
      [] filterType = "search" -> SearchInputs

\* FiltersSection is rendered only when alerts.length > 0
FilterChange(filterType, value) ==
    /\ Len(alerts) > 0
    /\ handleFilterChange(filterType, value)
    /\ UNCHANGED <<store, alerts, loading, error, lastFetchTime, gets, puts>>

----------------------------------------------------------------------------
(* Dashboard: status updates *)

\* handleStatusUpdate up to its await: the PUT request leaves
\* (shown, the status on the card that was clicked, is kept for the record)
handleStatusUpdate(alertId, newStatus, shown) ==
    puts' = Put(MarkTwins(alertId, shown),
                PutRequest(alertId, newStatus, shown, Partners(alertId, shown) # {}))

\* the button of the i-th rendered card; cards are rendered for filteredAlerts
AlertCardClick(i) ==
    /\ InFlight < MaxInFlight
    /\ LET cards == filteredAlerts
       IN /\ i \in DOMAIN cards
          /\ canTransition(cards[i])
          /\ handleStatusUpdate(cards[i].id, nextStatus(cards[i]), cards[i].status)
    /\ UNCHANGED <<store, alerts, loading, error, lastFetchTime, filters, gets>>

\* optimisticUpdate without the id test
optimisticUpdateAll(prev, alertId, newStatus) ==
    [k \in 1..Len(prev) |-> [prev[k] EXCEPT !.status = newStatus]]

\* optimisticUpdate, advancing the status held instead of setting newStatus
optimisticUpdateAdvance(prev, alertId, newStatus) ==
    [k \in 1..Len(prev) |->
        IF prev[k].id = alertId
        THEN [prev[k] EXCEPT !.status = getNextStatus(prev[k].status)]
        ELSE prev[k]]

\* prev.map(alert => alert.id === alertId ? {...alert, status: newStatus} : alert)
optimisticUpdate(prev, alertId, newStatus) ==
    [k \in 1..Len(prev) |->
        IF prev[k].id = alertId THEN [prev[k] EXCEPT !.status = newStatus] ELSE prev[k]]

\* handleStatusUpdateResume, updating before the response is looked at
handleStatusUpdateResumeEager(r) ==
    alerts' = optimisticUpdate(alerts, r.id, r.newStatus)

\* handleStatusUpdate after the await: try / catch
handleStatusUpdateResume(r) ==
    IF responseOk(r.code)
    THEN alerts' = optimisticUpdate(alerts, r.id, r.newStatus)
    ELSE alerts' = alerts

StatusUpdateDone(r) ==
    /\ BagIn(r, puts)
    /\ r.phase = "resp"
    /\ handleStatusUpdateResume(r)
    /\ puts' = Take(puts, r)
    /\ UNCHANGED <<store, loading, error, lastFetchTime, filters, gets>>

----------------------------------------------------------------------------
(* Backend and network *)

\* the detection source adds an alert to the store
CreateAlert ==
    /\ Len(store) < MaxAlerts
    /\ LET t == AlertPool[Len(store) + 1]
       IN store' = Append(store,
              Alert(t.id, t.severity, t.category, t.status, t.description, t.timestamp))
    /\ UNCHANGED <<alerts, loading, error, lastFetchTime, filters, gets, puts>>

\* GET /alerts: the full current collection
ServeGet(r) ==
    /\ BagIn(r, gets)
    /\ r.phase = "req"
    /\ gets' = Put(Take(gets, r), GetResponse("ok", store))
    /\ UNCHANGED <<store, alerts, loading, error, lastFetchTime, filters, puts>>

\* a GET that fails (non-2xx or rejected fetch), or a body that is not an array
FailGet(r) ==
    /\ BagIn(r, gets)
    /\ r.phase = "req"
    /\ \E kind \in {"error", "notArray"} :
         gets' = Put(Take(gets, r), GetResponse(kind, <<>>))
    /\ UNCHANGED <<store, alerts, loading, error, lastFetchTime, filters, puts>>

\* the transition table of the status machine
legalNext(status) ==
    CASE status = sNew -> sAcknowledged
      [] status = sAcknowledged -> sInProgress
      [] status = sInProgress -> sResolved
      [] OTHER -> Null

storeIndex(alertId) == CHOOSE k \in DOMAIN store : store[k].id = alertId

\* the response code of PUT /alerts/{id}/status: 404 NotFound, 400 InvalidTransition
putCode(r) ==
    IF ~ \E k \in DOMAIN store : store[k].id = r.id THEN 404
    ELSE IF legalNext(store[storeIndex(r.id)].status) = Null
              \/ r.newStatus # legalNext(store[storeIndex(r.id)].status) THEN 400
    ELSE 200

\* PUT /alerts/{id}/status: the status field is set in place on success
ServePut(r) ==
    /\ BagIn(r, puts)
    /\ r.phase = "req"
    /\ puts' = Put(Take(puts, r), [r EXCEPT !.phase = "resp", !.code = putCode(r)])
    /\ store' = IF putCode(r) = 200
                THEN [store EXCEPT ![storeIndex(r.id)].status = r.newStatus]
                ELSE store
    /\ UNCHANGED <<alerts, loading, error, lastFetchTime, filters, gets>>

\* the PUT fails in transit: the request or its response is lost
FailPut(r) ==
    /\ BagIn(r, puts)
    /\ r.phase = "req" \/ r.code # 0
    /\ puts' = Put(Take(puts, r), [r EXCEPT !.phase = "resp", !.code = 0])
    /\ UNCHANGED <<store, alerts, loading, error, lastFetchTime, filters, gets>>

----------------------------------------------------------------------------
(* The dashboard with its backend *)

\* the filter inputs the user makes in the full dashboard specification
UserOptions(filterType) ==
    CASE filterType = "severity" -> {sAll}
      [] filterType = "status" -> {sAll, <<"i", "n", "p", "r", "o", "g", "r", "e", "s", "s">>}
      [] filterType = "category" -> {sAll}
      [] filterType = "search" -> {sEmpty}

Next ==
    \/ Poll
    \/ handleManualRefresh
    \/ \E r \in BagToSet(gets) : FetchDone(r)
    \/ \E t \in FilterTypes : \E v \in UserOptions(t) : FilterChange(t, v)
    \/ \E i \in 1..MaxAlerts : AlertCardClick(i)
    \/ \E r \in BagToSet(puts) : StatusUpdateDone(r)
    \/ CreateAlert
    \/ \E r \in BagToSet(gets) : ServeGet(r)
    \/ \E r \in BagToSet(gets) : FailGet(r)
    \/ \E r \in BagToSet(puts) : ServePut(r)
    \/ \E r \in BagToSet(puts) : FailPut(r)

Spec == Init /\ [][Next]_vars

----------------------------------------------------------------------------
(* The filter and the summaries as pure functions: the dashboard holds a   *)
(* collection drawn from a bounded set and the user works the filters.     *)

\* the pool's alerts, each also as New and as In-Progress
FilterPool ==
    {AlertPool[k] : k \in DOMAIN AlertPool}
        \cup {[AlertPool[k] EXCEPT !.status = s] :
                k \in DOMAIN AlertPool, s \in {sNew, sInProgress}}

RECURSIVE Collections(_)
\* the collections of n alerts with distinct ids, in every order
Collections(n) ==
    IF n = 0 THEN {<<>>}
    ELSE UNION {{Append(c, a) :
                    a \in {b \in FilterPool : \A k \in DOMAIN c : c[k].id # b.id}} :
                c \in Collections(n - 1)}

FilterCollections == UNION {Collections(n) : n \in 0..MaxLen}

InitFilter ==
    /\ store = <<>>
    /\ alerts \in FilterCollections
    /\ loading = FALSE
    /\ error = Null
    /\ lastFetchTime = <<"D", "a", "t", "e">>
    /\ filters = DefaultFilters
    /\ gets = EmptyBag
    /\ puts = EmptyBag

NextFilter ==
    \E t \in FilterTypes : \E v \in FilterOptions(t) : FilterChange(t, v)

SpecFilter == InitFilter /\ [][NextFilter]_vars

----------------------------------------------------------------------------
(* Vocabulary of the properties *)

SameLetter(c, d) ==
    c = d \/ \E k \in 1..26 : {c, d} = {UpperChars[k], LowerChars[k]}

EqualIgnoringCase(a, b) ==
    Len(a) = Len(b) /\ \A i \in 1..Len(a) : SameLetter(a[i], b[i])

RECURSIVE WithoutHyphens(_)
WithoutHyphens(s) ==
    IF s = <<>> THEN <<>>
    ELSE IF Head(s) = "-" THEN WithoutHyphens(Tail(s))
    ELSE <<Head(s)>> \o WithoutHyphens(Tail(s))

SubstringIgnoringCase(sub, s) ==
    \E i \in 1..(Len(s) + 1) : \E j \in (i - 1)..Len(s) :
        EqualIgnoringCase(SubSeq(s, i, j), sub)

InFiltered(a) == \E j \in DOMAIN filteredAlerts : filteredAlerts[j] = a

PassesCriteria(a, f) ==
    /\ f.severity = sAll \/ EqualIgnoringCase(f.severity, a.severity)
    /\ f.status = sAll \/ EqualIgnoringCase(f.status, WithoutHyphens(a.status))
    /\ f.category = sAll \/ EqualIgnoringCase(f.category, a.category)
    /\ \/ f.search = <<>>
       \/ SubstringIgnoringCase(f.search, a.description)
       \/ SubstringIgnoringCase(f.search, a.id)

IsSubsequence(sub, seq) ==
    \E pos \in [1..Len(sub) -> 1..Len(seq)] :
        /\ \A j, k \in 1..Len(sub) : j < k => pos[j] < pos[k]
        /\ \A j \in 1..Len(sub) : seq[pos[j]] = sub[j]

sInprogressOption == <<"i", "n", "p", "r", "o", "g", "r", "e", "s", "s">>

----------------------------------------------------------------------------
(* C3: an alert of the collection is in filteredAlerts exactly when it     *)
(* passes all four criteria: severity, status and category are 'all' or    *)
(* equal the alert's field ignoring case (the status with its hyphens      *)
(* removed), and the search text is empty or a case-insensitive substring  *)
(* of the description or of the id.                                        *)
TheoremC3 ==
    \A i \in DOMAIN alerts : InFiltered(alerts[i]) <=> PassesCriteria(alerts[i], filters)

\* the status filter 'inprogress' keeps an In-Progress alert and drops another,
\* with a search text at work
WitnessC3 ==
    /\ filters.status = sInprogressOption
    /\ filters.search # <<>>
    /\ \E i \in DOMAIN alerts : alerts[i].status = sInProgress /\ InFiltered(alerts[i])
    /\ \E i \in DOMAIN alerts : ~InFiltered(alerts[i])

(* C4: filteredAlerts is a subsequence of the collection in its original   *)
(* order, and with all criteria 'all' and no search text it is the whole   *)
(* collection in the same order.                                           *)
TheoremC4 ==
    /\ IsSubsequence(filteredAlerts, alerts)
    /\ filters = DefaultFilters => filteredAlerts = alerts

\* a filter is set and two alerts pass it
WitnessC4 ==
    /\ filters # DefaultFilters
    /\ Len(filteredAlerts) >= 2

(* C6: a step that changes the filters changes one criterion only and      *)
(* leaves the alert collection, the status counts and the category counts  *)
(* as they were.                                                           *)
TheoremC6 ==
    [][filters' # filters =>
        /\ \E t \in FilterTypes : \A u \in FilterTypes \ {t} : filters'[u] = filters[u]
        /\ alerts' = alerts
        /\ statistics' = statistics
        /\ categoryCounts' = categoryCounts]_vars

\* filters have been changed over a collection that has counts to keep
WitnessC6 ==
    /\ filters.severity # sAll
    /\ filters.search # <<>>
    /\ statistics.total >= 2
    /\ categoryCounts.CVE >= 1

----------------------------------------------------------------------------
(* The lifecycle order New < Acknowledged < In-Progress < Resolved *)

Rank(status) ==
    CASE status = sNew -> 1
      [] status = sAcknowledged -> 2
      [] status = sInProgress -> 3
      [] status = sResolved -> 4
      [] OTHER -> 0

\* status b is the stage right after status a
OneStageAfter(a, b) == Rank(a) >= 1 /\ Rank(b) = Rank(a) + 1

\* the PUT exchange r completes in this step, with or without success
Completes(r) == BagIn(r, puts) /\ r.phase = "resp" /\ puts' = Take(puts, r)

idA1 == <<"A", "1">>

----------------------------------------------------------------------------
(* C1: for the card of every alert the dashboard holds, getNextStatus maps *)
(* New to Acknowledged, Acknowledged to In-Progress, In-Progress to        *)
(* Resolved, and Resolved to null.                                         *)
TheoremC1 ==
    \A i \in DOMAIN alerts :
        /\ alerts[i].status = sNew => nextStatus(alerts[i]) = sAcknowledged
        /\ alerts[i].status = sAcknowledged => nextStatus(alerts[i]) = sInProgress
        /\ alerts[i].status = sInProgress => nextStatus(alerts[i]) = sResolved
        /\ alerts[i].status = sResolved => nextStatus(alerts[i]) = Null

\* the alert created New is held as Resolved, having passed every stage
WitnessC1 ==
    \E i \in DOMAIN alerts :
        /\ alerts[i].id = idA1
        /\ alerts[i].status = sResolved
        /\ nextStatus(alerts[i]) = Null

(* C2: advancing moves one stage at a time. In every step the stored       *)
(* status of an alert stays or moves to the stage right after it, and a    *)
(* Resolved alert stays Resolved; every update request sent from a card    *)
(* showing a lifecycle status asks for the stage right after the status    *)
(* shown, and none is sent from a card showing Resolved; a successful      *)
(* update leaves the alert in the dashboard one stage after the status     *)
(* its card showed.                                                        *)
TheoremC2 ==
    [][/\ \A k \in DOMAIN store :
            \/ store'[k].status = store[k].status
            \/ OneStageAfter(store[k].status, store'[k].status)
       /\ \A r \in BagToSet(puts') :
            Rank(r.shown) >= 1 =>
                r.shown # sResolved /\ OneStageAfter(r.shown, r.newStatus)
       /\ \A r \in BagToSet(puts) :
            Completes(r) /\ responseOk(r.code) =>
                \A k \in DOMAIN alerts :
                    alerts[k].id = r.id =>
                        OneStageAfter(r.shown, alerts'[k].status)]_vars

\* three successful advances: the alert created New is Resolved in the store
\* and in the dashboard
WitnessC2 ==
    /\ \E k \in DOMAIN store : store[k].id = idA1 /\ store[k].status = sResolved
    /\ \E i \in DOMAIN alerts : alerts[i].id = idA1 /\ alerts[i].status = sResolved
    /\ puts = EmptyBag

(* C5: the status counts partition the collection: total is its length,    *)
(* the four counts and the number of alerts with a status outside the      *)
(* lifecycle add up to total, so that new + acknowledged + inProgress +    *)
(* resolved = total whenever every status held is a lifecycle status.      *)
TheoremC5 ==
    LET sum == statistics.new + statistics.acknowledged
                 + statistics.inProgress + statistics.resolved
        others == Cardinality({i \in DOMAIN alerts : alerts[i].status \notin Lifecycle})
    IN /\ statistics.total = Len(alerts)
       /\ sum + others = statistics.total
       /\ (\A i \in DOMAIN alerts : alerts[i].status \in Lifecycle)
            => sum = statistics.total

\* after updates: a collection of lifecycle statuses with an In-Progress alert
WitnessC5 ==
    /\ Len(alerts) >= 1
    /\ \A i \in DOMAIN alerts : alerts[i].status \in Lifecycle
    /\ statistics.inProgress >= 1

(* C7: when a status update completes without success (a non-2xx response  *)
(* or no response at all), the alert collection is unchanged.              *)
TheoremC7 ==
    [][\A r \in BagToSet(puts) :
          Completes(r) /\ ~responseOk(r.code) => alerts' = alerts]_vars

\* a 400 response is about to be handled while the dashboard holds the alert
\* with another status than the one asked for
WitnessC7 ==
    \E r \in BagToSet(puts) :
        /\ r.phase = "resp"
        /\ r.code = 400
        /\ \E i \in DOMAIN alerts : alerts[i].id = r.id /\ alerts[i].status # r.newStatus

(* C8: a successful status update for id X with target S sets the status   *)
(* of the alert with id X to S; the collection keeps its length and order, *)
(* every alert keeps its id, severity, category, description and           *)
(* timestamp, every other alert keeps its status, and the filters stay.    *)
TheoremC8 ==
    [][\A r \in BagToSet(puts) :
          Completes(r) /\ responseOk(r.code) =>
            /\ Len(alerts') = Len(alerts)
            /\ \A k \in DOMAIN alerts :
                 /\ alerts'[k].id = alerts[k].id
                 /\ alerts'[k].severity = alerts[k].severity
                 /\ alerts'[k].category = alerts[k].category
                 /\ alerts'[k].description = alerts[k].description
                 /\ alerts'[k].timestamp = alerts[k].timestamp
                 /\ alerts'[k].status =
                        IF alerts[k].id = r.id THEN r.newStatus ELSE alerts[k].status
            /\ filters' = filters]_vars

\* a 200 response is about to be handled while the dashboard holds two alerts,
\* the one it is for still with its old status
WitnessC8 ==
    \E r \in BagToSet(puts) :
        /\ r.phase = "resp"
        /\ r.code = 200
        /\ Len(alerts) >= 2
        /\ \E i \in DOMAIN alerts : alerts[i].id = r.id /\ alerts[i].status # r.newStatus

(* C10: every rendered card offers the advance action exactly when the     *)
(* transition table gives a next status for the alert's status, and every  *)
(* update request in flight carries the next status of the status its card *)
(* showed, which is one of Acknowledged, In-Progress, Resolved.            *)
ClaimC10 ==
    /\ \A i \in DOMAIN filteredAlerts :
         canTransition(filteredAlerts[i])
            <=> nextStatus(filteredAlerts[i]) \in {sAcknowledged, sInProgress, sResolved}
    /\ \A r \in BagToSet(puts) :
         /\ r.newStatus = getNextStatus(r.shown)
         /\ r.newStatus \in {sAcknowledged, sInProgress, sResolved}

----------------------------------------------------------------------------
(* The polling dashboard under fairness: the interval timer keeps firing,  *)
(* GET requests keep being answered with the collection, and every         *)
(* exchange in flight is eventually answered and its answer handled.       *)

OkFetchDone == \E r \in BagToSet(gets) : r.kind = "ok" /\ FetchDone(r)
FailedFetchDone == \E r \in BagToSet(gets) : r.kind # "ok" /\ FetchDone(r)
GetAnswered == \E r \in BagToSet(gets) : ServeGet(r)
PutAnswered == \E r \in BagToSet(puts) : r.phase = "req" /\ (ServePut(r) \/ FailPut(r))
PutHandled == \E r \in BagToSet(puts) : StatusUpdateDone(r)

Fairness ==
    /\ SF_vars(Poll)
    /\ SF_vars(GetAnswered)
    /\ WF_vars(OkFetchDone)
    /\ WF_vars(FailedFetchDone)
    /\ WF_vars(PutAnswered)
    /\ WF_vars(PutHandled)

LiveSpec == Init /\ [][Next]_vars /\ Fairness

(* C9: the store changes finitely often (alerts are created up to the      *)
(* bound and statuses only move forward), and under the fairness above the *)
(* dashboard's collection equals the store's again and again: whatever the *)
(* store has settled to, the dashboard eventually holds it.                *)
TheoremC9 == []<>(alerts = store)

\* the dashboard holds the store's two alerts, the first advanced to Resolved
WitnessC9 ==
    /\ alerts = store
    /\ Len(store) >= 2
    /\ store[1].status = sResolved

----------------------------------------------------------------------------
\* the GET exchange r completes in this step
FetchCompletes(r) == BagIn(r, gets) /\ r.phase = "resp" /\ gets' = Take(gets, r)

(* C11: when a fetch of the alert list completes with a failure, the alert *)
(* collection is unchanged and an error message is recorded; when it       *)
(* completes with a response, the collection becomes the response, or the  *)
(* empty list when the response is not an array, and the error is cleared; *)
(* either way loading is false after the step.                             *)
TheoremC11 ==
    [][\A r \in BagToSet(gets) :
          FetchCompletes(r) =>
            /\ r.kind = "error" => alerts' = alerts /\ error' # Null
            /\ r.kind = "ok" => alerts' = r.data /\ error' = Null
            /\ r.kind = "notArray" => alerts' = <<>> /\ error' = Null
            /\ loading' = FALSE]_vars

\* a fetch has failed while the dashboard held alerts: they are kept, the
\* error is recorded and loading is off
WitnessC11 ==
    /\ error # Null
    /\ Len(alerts) >= 1
    /\ loading = FALSE
    /\ lastFetchTime # Null

(* C13: in every step, the status the dashboard holds for an alert id does *)
(* not move backward in the order New < Acknowledged < In-Progress <       *)
(* Resolved.                                                               *)
ClaimC13 ==
    [][\A i \in DOMAIN alerts : \A j \in DOMAIN alerts' :
          alerts'[j].id = alerts[i].id =>
            Rank(alerts'[j].status) >= Rank(alerts[i].status)]_vars

----------------------------------------------------------------------------
(* Concurrent advance requests for one alert from one displayed status *)

\* the PUT exchange r is accepted by the store in this step
Accepted(r) ==
    /\ BagIn(r, puts)
    /\ r.phase = "req"
    /\ puts' = Put(Take(puts, r), [r EXCEPT !.phase = "resp", !.code = 200])

\* the last of the concurrent advance exchanges r belongs to completes in this
\* step (an advance is sent from a card showing a lifecycle status)
LastTwinCompletes(r) ==
    /\ r.twin
    /\ Rank(r.shown) >= 1
    /\ Completes(r)
    /\ ~ \E p \in BagToSet(puts') : p.id = r.id /\ p.shown = r.shown

(* C12 as stated: when the last of the concurrent advance requests for an  *)
(* alert id sent from one displayed status has completed, the alert's      *)
(* status in the store and in the dashboard is exactly one stage after     *)
(* that displayed status.                                                  *)
ClaimC12 ==
    [][\A r \in BagToSet(puts) :
          LastTwinCompletes(r) =>
            /\ \A k \in DOMAIN store' :
                 store'[k].id = r.id => OneStageAfter(r.shown, store'[k].status)
            /\ \A k \in DOMAIN alerts' :
                 alerts'[k].id = r.id => OneStageAfter(r.shown, alerts'[k].status)]_vars

(* C12, amended: of the concurrent advance requests for an alert id sent   *)
(* from one displayed status, the store accepts one only while it holds    *)
(* that displayed status and no other of them is accepted and in flight,   *)
(* and the accept moves the stored status exactly one stage; each          *)
(* completion leaves the dashboard's status of the alert as it is or sets  *)
(* it to the stage right after the displayed status. Neither the store nor *)
(* the dashboard is moved two stages by them.                              *)
TheoremC12 ==
    [][\A r \in BagToSet(puts) :
          r.twin =>
            /\ Accepted(r) =>
                 /\ ~ \E p \in BagToSet(puts) :
                        p.id = r.id /\ p.shown = r.shown /\ p.code = 200
                 /\ \A k \in DOMAIN store :
                      IF store[k].id = r.id
                      THEN /\ store[k].status = r.shown
                           /\ OneStageAfter(r.shown, store'[k].status)
                      ELSE store'[k] = store[k]
            /\ Completes(r) =>
                 /\ Len(alerts') = Len(alerts)
                 /\ \A k \in DOMAIN alerts :
                      IF alerts[k].id = r.id
                      THEN \/ alerts'[k].status = alerts[k].status
                           \/ OneStageAfter(r.shown, alerts'[k].status)
                      ELSE alerts'[k] = alerts[k]]_vars

\* two clicks on the card of A1 showing New: one exchange was accepted and
\* has completed, the other was rejected and is about to complete; store and
\* dashboard are one stage ahead
WitnessC12 ==
    /\ \E r \in BagToSet(puts) :
         /\ r.twin /\ r.id = idA1 /\ r.shown = sNew
         /\ r.phase = "resp" /\ r.code = 400
    /\ BagCardinality(puts) = 1
    /\ \E k \in DOMAIN store : store[k].id = idA1 /\ store[k].status = sAcknowledged
    /\ \E k \in DOMAIN alerts : alerts[k].id = idA1 /\ alerts[k].status = sAcknowledged

====
